---- MODULE Spec2Model ----
(***************************************************************************)
(* envchain: namespaced secrets in the macOS keychain.                     *)
(*                                                                         *)
(* The keychain is a sequence of generic-password items (the order is the  *)
(* order in which the backend returns them).  C strings are sequences of   *)
(* character codes, so that the service-name prefix, strncmp and strcmp    *)
(* are computed and not assumed.  Application paths are opaque strings.    *)
(*                                                                         *)
(* Three specifications share the variables and the operators:             *)
(*   Spec        entry operations: save with any policy, update access and *)
(*               delete, in any order, on entries with any prior ACL;      *)
(*   SpecList    enumeration: list namespaces and list keys over the       *)
(*               keychains that save and delete build;                     *)
(*   SpecMain    one run of main() of envchain.c over an argument vector.  *)
(***************************************************************************)
EXTENDS Integers, Sequences, FiniteSets, TLC

VARIABLES
  store,    \* the keychain: Seq of items
  last,     \* what the last backend-facing operation did and returned
  proc      \* the process of SpecMain (pc, argv, rc, resources, ...)

vars == <<store, last, proc>>

----------------------------------------------------------------------------
(* Strings *)

ENVCHAIN_SERVICE_PREFIX == <<101, 110, 118, 99, 104, 97, 105, 110, 45>>

ENVCHAIN_ITEM_DESCRIPTION == <<101, 110, 118, 99, 104, 97, 105, 110>>

NsA == <<97>>
NsB == <<98>>
KeyH == <<72>>
KeyP == <<80>>
Val1 == <<49>>
Val2 == <<50>>

Names == {NsA, NsB}
Keys == {KeyH, KeyP}
Vals == {Val1, Val2}

\* strlen
strlen(s) == Len(s)

\* strncmp(a, b, n) == 0
StrnEq(a, b, n) ==
  \A i \in 1..n :
    /\ (i <= Len(a)) = (i <= Len(b))
    /\ (i <= Len(a) /\ i <= Len(b)) => a[i] = b[i]

\* strcmp(a, b) < 0 : byte-wise lexicographic order
RECURSIVE StrLess(_, _)
StrLess(a, b) ==
  IF b = <<>> THEN FALSE
  ELSE IF a = <<>> THEN TRUE
  ELSE IF Head(a) # Head(b) THEN Head(a) < Head(b)
  ELSE StrLess(Tail(a), Tail(b))

\* strcmp(a, b) as -1, 0, 1
envchain_sortcmp_str(a, b) ==
  IF a = b THEN 0 ELSE IF StrLess(a, b) THEN 0 - 1 ELSE 1

envchain_generate_service_name(name) == ENVCHAIN_SERVICE_PREFIX \o name

----------------------------------------------------------------------------
(* The running program's identity and the keychain's prompt selector *)

PathExec == "/usr/local/bin/envchain"
PathReal == "/opt/envchain/bin/envchain"
PathOther == "/usr/bin/security"

SelfPlain == [exec |-> PathExec, real |-> PathExec]

\* (selfexecpath, selfrealpath) of one process
Selves == { [exec |-> PathExec, real |-> PathExec],
            [exec |-> PathExec, real |-> PathReal] }

kSecKeychainPromptRequirePassphase == 1
PromptExplicit == 256

RECURSIVE BitOr(_, _)
BitOr(a, b) ==
  IF a = 0 THEN b
  ELSE IF b = 0 THEN a
  ELSE (IF a % 2 = 1 \/ b % 2 = 1 THEN 1 ELSE 0) + 2 * BitOr(a \div 2, b \div 2)

RECURSIVE BitAnd(_, _)
BitAnd(a, b) ==
  IF a = 0 \/ b = 0 THEN 0
  ELSE (IF a % 2 = 1 /\ b % 2 = 1 THEN 1 ELSE 0) + 2 * BitAnd(a \div 2, b \div 2)

----------------------------------------------------------------------------
(* The keychain backend, as the code uses it *)

Item(svc, acct, data, desc, prompt, apps) ==
  [svc |-> svc, acct |-> acct, data |-> data, desc |-> desc,
   prompt |-> prompt, apps |-> apps]

\* a lookup that matches the service and overlooks the account
FindByServiceOnly(st, service, account) ==
  IF \E i \in 1..Len(st) : st[i].svc = service
  THEN CHOOSE i \in 1..Len(st) :
         st[i].svc = service /\ \A j \in 1..(i - 1) : st[j].svc # service
  ELSE 0

\* SecKeychainFindGenericPassword: the first item of the service and account, 0 if none
SecKeychainFindGenericPassword(st, service, account) ==
  IF \E i \in 1..Len(st) : st[i].svc = service /\ st[i].acct = account
  THEN CHOOSE i \in 1..Len(st) :
         /\ st[i].svc = service /\ st[i].acct = account
         /\ \A j \in 1..(i - 1) : ~(st[j].svc = service /\ st[j].acct = account)
  ELSE 0

\* SecKeychainAddGenericPassword: a new item, no description, the creator trusted
SecKeychainAddGenericPassword(st, service, account, data, self) ==
  Append(st, Item(service, account, data, <<>>, 0, <<self.exec>>))

\* SecKeychainItemModifyAttributesAndData(ref, NULL, len, data)
ModifyData(st, ref, data) == [st EXCEPT ![ref].data = data]

\* SecKeychainItemModifyAttributesAndData(ref, {description}, len, data)
ModifyDescriptionAndData(st, ref, desc, data) ==
  [st EXCEPT ![ref].desc = desc, ![ref].data = data]

\* SecKeychainItemDelete
SecKeychainItemDelete(st, ref) ==
  [i \in 1..(Len(st) - 1) |-> IF i < ref THEN st[i] ELSE st[i + 1]]

\* SecItemCopyMatching: the references of the matching items, in backend order
RECURSIVE MatchFrom(_, _, _, _)
MatchFrom(st, i, byDescription, text) ==
  IF i > Len(st) THEN <<>>
  ELSE IF (IF byDescription THEN st[i].desc = text ELSE st[i].svc = text)
       THEN <<i>> \o MatchFrom(st, i + 1, byDescription, text)
       ELSE MatchFrom(st, i + 1, byDescription, text)

SecItemCopyMatching(st, byDescription, text) == MatchFrom(st, 1, byDescription, text)

----------------------------------------------------------------------------
(* Results of an operation: the keychain after it, its return value, and    *)
(* whether it ended the process (exit) and with which status.               *)

Ret(st, rc) == [store |-> st, rc |-> rc, exited |-> FALSE, code |-> 0]
Exit(st, code) == [store |-> st, rc |-> 0, exited |-> TRUE, code |-> code]

\* envchain_fail_osstatus: print the message, exit(10)
envchain_fail_osstatus(st) == Exit(st, 10)

\* envchain_find_value: 0 when not found, 1 when found (ref set)
FindRef(st, name, key) ==
  SecKeychainFindGenericPassword(st, envchain_generate_service_name(name), key)

\* a lookup that reports every pair as not found
FindNothing(st, name, key) == 0

envchain_find_value(st, name, key) == IF FindRef(st, name, key) = 0 THEN 0 ELSE 1

----------------------------------------------------------------------------
(* Access policy.  f names the one backend call of the operation that      *)
(* fails ("none": every call succeeds).                                    *)

\* a trusted list of the invocation path alone
InvocationPathOnly(self) == <<self.exec>>

\* envchain_self_trusted_app_list: the invocation path, then the real path if it differs
envchain_self_trusted_app_list(self) ==
  IF self.exec # self.real THEN <<self.exec, self.real>> ELSE <<self.exec>>

\* the step of envchain_self_trusted_app_list that ends the process, if any
SelfTrustedAppListExit(self, f) ==
  IF f = "exec_path" THEN 10
  ELSE IF f = "real_path" THEN 1
  ELSE IF f = "app_exec" THEN 10
  ELSE IF f = "app_real" /\ self.exec # self.real THEN 10
  ELSE 0

\* the prompt selector written for require_passphrase == 1
RequirePassphrasePrompt(prompt) ==
  BitOr(IF prompt = 0 THEN PromptExplicit ELSE prompt, kSecKeychainPromptRequirePassphase)

envchain_apply_item_access(st, ref, require_passphrase, self, f) ==
  IF f \in {"copy_access", "no_acl", "copy_contents"} THEN envchain_fail_osstatus(st)
  ELSE IF require_passphrase # 1 /\ SelfTrustedAppListExit(self, f) # 0
       THEN Exit(st, SelfTrustedAppListExit(self, f))
  ELSE IF f \in {"set_contents", "set_access"} THEN envchain_fail_osstatus(st)
  ELSE LET prompt == IF require_passphrase = 1
                     THEN RequirePassphrasePrompt(st[ref].prompt)
                     ELSE 0
           app_list == IF require_passphrase = 1
                       THEN <<>>
                       ELSE envchain_self_trusted_app_list(self)
       IN  Ret([st EXCEPT ![ref].prompt = prompt, ![ref].apps = app_list], 0)

----------------------------------------------------------------------------
(* Entry operations *)

envchain_save_value(st, name, key, value, require_passphrase, self, f) ==
  IF f = "find" THEN envchain_fail_osstatus(st)
  ELSE
    LET found == envchain_find_value(st, name, key) # 0
        failed == IF found THEN f = "modify" ELSE f = "add"
        st1 == IF found
               THEN ModifyData(st, FindRef(st, name, key), value)
               ELSE SecKeychainAddGenericPassword(
                      st, envchain_generate_service_name(name), key, value, self)
        ref == IF found THEN FindRef(st, name, key) ELSE Len(st1)
        st2 == ModifyDescriptionAndData(st1, ref, ENVCHAIN_ITEM_DESCRIPTION, value)
    IN  IF failed THEN envchain_fail_osstatus(st)
        ELSE IF f = "describe" THEN envchain_fail_osstatus(st1)
        ELSE IF require_passphrase >= 0
             THEN LET r == envchain_apply_item_access(st2, ref, require_passphrase, self, f)
                  IN  IF r.exited THEN r ELSE Ret(r.store, 0)
        ELSE Ret(st2, 0)

\* an update that takes a missing pair for a success
UpdateAccessMissingIsFine(st, name, key, require_passphrase, self, f) ==
  IF FindRef(st, name, key) = 0 THEN Ret(st, 0)
  ELSE LET r == envchain_apply_item_access(
                  st, FindRef(st, name, key), require_passphrase, self, f)
       IN  IF r.exited THEN r ELSE Ret(r.store, 0)

envchain_update_value_access(st, name, key, require_passphrase, self, f) ==
  IF require_passphrase < 0 THEN Ret(st, 1)
  ELSE IF f = "find" THEN envchain_fail_osstatus(st)
  ELSE IF envchain_find_value(st, name, key) = 0 THEN Ret(st, 1)
  ELSE LET r == envchain_apply_item_access(
                  st, FindRef(st, name, key), require_passphrase, self, f)
       IN  IF r.exited THEN r ELSE Ret(r.store, 0)

\* the status of SecKeychainItemDelete is not looked at
envchain_delete_value(st, name, key, f) ==
  IF f = "find" THEN envchain_fail_osstatus(st)
  ELSE IF envchain_find_value(st, name, key) # 0 /\ f # "delete"
       THEN Ret(SecKeychainItemDelete(st, FindRef(st, name, key)), 0)
  ELSE Ret(st, 0)

\* copy of an entry's secret payload (SecKeychainItemCopyContent with a data pointer)
CopyValue(st, ref) == st[ref].data

----------------------------------------------------------------------------
(* Enumeration *)

\* the key the applier hands to its callback: the account in value mode, the
\* service in namespace mode, with the prefix cut off when the service starts with it
ApplierKey(item, valueMode) ==
  IF valueMode THEN item.acct
  ELSE IF StrnEq(item.svc, ENVCHAIN_SERVICE_PREFIX, strlen(ENVCHAIN_SERVICE_PREFIX))
       THEN SubSeq(item.svc, strlen(ENVCHAIN_SERVICE_PREFIX) + 1, Len(item.svc))
       ELSE item.svc

\* envchain_search_values_applier over the matched items: the callback arguments,
\* in order; an item whose SecKeychainItemCopyContent fails is reported and left out
RECURSIVE ApplyFrom(_, _, _, _, _)
ApplyFrom(st, items, i, valueMode, fails) ==
  IF i > Len(items) THEN <<>>
  ELSE (IF i \in fails
        THEN <<>>
        ELSE <<[key |-> ApplierKey(st[items[i]], valueMode),
                value |-> IF valueMode THEN st[items[i]].data ELSE <<>>]>>)
       \o ApplyFrom(st, items, i + 1, valueMode, fails)

envchain_search_values_applier(st, items, valueMode, fails) ==
  ApplyFrom(st, items, 1, valueMode, fails)

\* the number of items whose secret payload the applier asks the backend for
PayloadFetches(items, valueMode) == IF valueMode THEN Len(items) ELSE 0

\* qsort with envchain_sortcmp_str
RECURSIVE InsertSorted(_, _)
InsertSorted(x, s) ==
  IF s = <<>> THEN <<x>>
  ELSE IF envchain_sortcmp_str(x, Head(s)) <= 0 THEN <<x>> \o s
  ELSE <<Head(s)>> \o InsertSorted(x, Tail(s))

RECURSIVE SortNames(_)
SortNames(s) == IF s = <<>> THEN <<>> ELSE InsertSorted(Head(s), SortNames(Tail(s)))

\* the names left in the order the backend returned them
NoSort(names) == names

qsort(names) == SortNames(names)

\* the loop over the sorted names: the callback runs unless the name equals the one before
RECURSIVE UniqFrom(_, _)
UniqFrom(names, i) ==
  IF i > Len(names) THEN <<>>
  ELSE (IF i = 1 \/ envchain_sortcmp_str(names[i - 1], names[i]) # 0
        THEN <<names[i]>>
        ELSE <<>>)
       \o UniqFrom(names, i + 1)

\* an uninitialized pointer that cannot be read (no C string holds a NUL)
Fault == <<0>>

EnumRet(rc, out, fetched) ==
  [rc |-> rc, exited |-> FALSE, code |-> 0, out |-> out, fetched |-> fetched, ub |-> FALSE]
EnumExit(code, ub) ==
  [rc |-> 0, exited |-> TRUE, code |-> code, out |-> <<>>, fetched |-> 0, ub |-> ub]

\* envchain_search_namespaces.  fail: the position of the matched item whose
\* attributes cannot be read (0: none); the last slot of names[] then stays
\* uninitialized, and
\* qsort then reads them: junk is what such a slot holds (Fault: the read faults).
envchain_search_namespaces(st, f, fail, junk) ==
  LET items == SecItemCopyMatching(st, TRUE, ENVCHAIN_ITEM_DESCRIPTION)
      got == envchain_search_values_applier(st, items, FALSE, {fail})
      names == [i \in 1..Len(items) |-> IF i <= Len(got) THEN got[i].key ELSE junk]
      undefined == Len(got) < Len(items)
  IN  IF f = "query" THEN EnumExit(10, FALSE)
      ELSE IF Len(items) = 0 THEN EnumRet(0, <<>>, 0)
      ELSE IF undefined /\ junk = Fault THEN EnumExit(139, TRUE)
      ELSE [EnumRet(0, UniqFrom(qsort(names), 1), PayloadFetches(items, FALSE))
              EXCEPT !.ub = undefined]

\* envchain_search_values: the callback gets (key, value) of every item of the service
envchain_search_values(st, name, f, fail) ==
  LET items == SecItemCopyMatching(st, FALSE, envchain_generate_service_name(name))
  IN  IF f = "query" THEN EnumExit(10, FALSE)
      ELSE IF Len(items) = 0 THEN EnumRet(1, <<>>, 0)
      ELSE EnumRet(0, envchain_search_values_applier(st, items, TRUE, {fail}),
                   PayloadFetches(items, TRUE))

----------------------------------------------------------------------------
(* What the last backend-facing operation was and what it returned *)

NoSelf == [exec |-> "", real |-> ""]

NoAcl == [prompt |-> 0, apps |-> <<>>]

\* found, prior: whether the entry existed before the operation, and its ACL then
Last(op, name, key, value, rp, self, r) ==
  [op |-> op, name |-> name, key |-> key, value |-> value, rp |-> rp, self |-> self,
   found |-> op \in {"save", "updateAccess", "delete"} /\ FindRef(store, name, key) # 0,
   prior |-> IF op \in {"save", "updateAccess"} /\ FindRef(store, name, key) # 0
             THEN [prompt |-> store[FindRef(store, name, key)].prompt,
                   apps |-> store[FindRef(store, name, key)].apps]
             ELSE NoAcl,
   rc |-> r.rc, exited |-> r.exited, code |-> r.code,
   out |-> IF "out" \in DOMAIN r THEN r.out ELSE <<>>,
   fetched |-> IF "fetched" \in DOMAIN r THEN r.fetched ELSE 0,
   ub |-> IF "ub" \in DOMAIN r THEN r.ub ELSE FALSE]

NoLast ==
  [op |-> "none", name |-> <<>>, key |-> <<>>, value |-> <<>>, rp |-> 0, self |-> NoSelf,
   found |-> FALSE, prior |-> NoAcl, rc |-> 0, exited |-> FALSE, code |-> 0,
   out |-> <<>>, fetched |-> 0, ub |-> FALSE]

NoProc == [pc |-> "api"]

\* the policy argument: -1 leave as is, 0 trusted callers, 1 require passphrase
Unspecified == 0 - 1
TrustedCallers == 0
RequirePassphrase == 1

SaveFailures == {"none", "find", "add", "modify", "describe", "copy_access", "no_acl",
                 "copy_contents", "exec_path", "real_path", "app_exec", "app_real",
                 "set_contents", "set_access"}
AccessFailures == SaveFailures \ {"add", "modify", "describe"}
DeleteFailures == {"none", "find", "delete"}
QueryFailures == {"none", "query"}

\* One call of each operation, its arguments drawn from the given sets
DoSave(names, keys, vals, policies, selves, failures) ==
  \E n \in names, k \in keys, v \in vals, rp \in policies, self \in selves,
     f \in failures :
    LET r == envchain_save_value(store, n, k, v, rp, self, f)
    IN  /\ store' = r.store
        /\ last' = Last("save", n, k, v, rp, self, r)
        /\ UNCHANGED proc

DoUpdateAccess(names, keys, policies, selves, failures) ==
  \E n \in names, k \in keys, rp \in policies, self \in selves, f \in failures :
    LET r == envchain_update_value_access(store, n, k, rp, self, f)
    IN  /\ store' = r.store
        /\ last' = Last("updateAccess", n, k, <<>>, rp, self, r)
        /\ UNCHANGED proc

DoDelete(names, keys, failures) ==
  \E n \in names, k \in keys, f \in failures :
    LET r == envchain_delete_value(store, n, k, f)
    IN  /\ store' = r.store
        /\ last' = Last("delete", n, k, <<>>, 0, NoSelf, r)
        /\ UNCHANGED proc

\* what an uninitialized slot of names[] may hold
JunkNames == {Fault, NsA}

DoListNamespaces ==
  \E f \in QueryFailures,
     fail \in 0..Len(SecItemCopyMatching(store, TRUE, ENVCHAIN_ITEM_DESCRIPTION)),
     junk \in JunkNames :
    LET r == envchain_search_namespaces(store, f, fail, junk)
    IN  /\ last' = Last("listNamespaces", <<>>, <<>>, <<>>, 0, NoSelf, r)
        /\ UNCHANGED <<store, proc>>

DoListKeys(names) ==
  \E n \in names, f \in QueryFailures :
    \E fail \in 0..Len(SecItemCopyMatching(
                         store, FALSE, envchain_generate_service_name(n))) :
      LET r == envchain_search_values(store, n, f, fail)
      IN  /\ last' = Last("listKeys", n, <<>>, <<>>, 0, NoSelf, r)
          /\ UNCHANGED <<store, proc>>

----------------------------------------------------------------------------
(* Spec: entry operations and access policy *)

\* the ACL an entry may have before an operation: its prompt selector and its
\* authorized applications, as envchain or any other program left them
\* (16: prompt when the caller is unsigned; 257: what envchain itself writes)
PriorPrompts == {0, kSecKeychainPromptRequirePassphase, 16,
                 PromptExplicit + kSecKeychainPromptRequirePassphase}
PriorApps == {<<>>, <<PathOther>>, <<PathOther, PathExec>>}

PriorEntries ==
  { Item(envchain_generate_service_name(NsA), KeyH, Val1, ENVCHAIN_ITEM_DESCRIPTION, p, a) :
      p \in PriorPrompts, a \in PriorApps }

Init ==
  /\ store \in {<<>>} \cup { <<e>> : e \in PriorEntries }
  /\ last = NoLast
  /\ proc = NoProc

\* save of the entry (a, H): every value, policy, identity and failing call
Save == DoSave({NsA}, {KeyH}, Vals, {Unspecified, TrustedCallers, RequirePassphrase},
               Selves, SaveFailures)

\* save of its sibling (a, P), no policy asked for
SaveSibling == DoSave({NsA}, {KeyP}, {Val2}, {Unspecified}, {SelfPlain}, {"none"})

UpdateAccess == DoUpdateAccess({NsA}, Keys, {Unspecified, TrustedCallers, RequirePassphrase},
                               Selves, AccessFailures)

Delete == DoDelete({NsA}, Keys, DeleteFailures)

Next == Save \/ SaveSibling \/ UpdateAccess \/ Delete

Spec == Init /\ [][Next]_vars

----------------------------------------------------------------------------
(* Claims about entry operations and access policy (Spec) *)

\* the items that (name, key) resolves to
Matching(st, name, key) ==
  { i \in 1..Len(st) : st[i].svc = ENVCHAIN_SERVICE_PREFIX \o name /\ st[i].acct = key }

Completed(op) == last.op = op /\ ~last.exited

\* C1: after save(N, K, V, Unspecified) returns, whether (N, K) was absent or
\* present with any value, (N, K) resolves to an entry and that entry's value is V.
C1_SaveThenFindReturnsValue ==
  (Completed("save") /\ last.rp = Unspecified) =>
    /\ Matching(store, last.name, last.key) # {}
    /\ \A i \in Matching(store, last.name, last.key) : CopyValue(store, i) = last.value

\* C1 witness: a save without policy that overwrote an existing entry, with a sibling
\* key present in the same namespace
C1_Witness ==
  /\ Completed("save") /\ last.rp = Unspecified /\ last.found
  /\ last.key = KeyH /\ last.value = Val2
  /\ Matching(store, NsA, KeyP) # {}

\* C2: after any sequence of save, updateAccess and delete, every (namespace, key)
\* resolves to at most one entry, and a completed save leaves exactly one entry
\* for its pair, whether the pair existed before or not.
C2_AtMostOneEntryPerPair ==
  /\ \A i, j \in 1..Len(store) :
       (store[i].svc = store[j].svc /\ store[i].acct = store[j].acct) => i = j
  /\ Completed("save") => Cardinality(Matching(store, last.name, last.key)) = 1

\* C2 witness: a save of a pair that already had an entry
C2_Witness ==
  /\ Completed("save") /\ last.found
  /\ Cardinality(Matching(store, last.name, last.key)) = 1
  /\ Len(store) = 2

\* the entry an access-policy operation was applied to
Applied(rp) ==
  /\ last.op \in {"save", "updateAccess"} /\ ~last.exited /\ last.rc = 0
  /\ last.rp = rp

TargetAcl == store[CHOOSE i \in Matching(store, last.name, last.key) : TRUE]

\* C3: after RequirePassphrase is applied, for every prior ACL the decrypt ACL has
\* the explicit always-prompt flag and the require-passphrase flag set and no
\* authorized application.
C3_RequirePassphraseSetsBothFlags ==
  Applied(RequirePassphrase) =>
    /\ BitAnd(TargetAcl.prompt, PromptExplicit) = PromptExplicit
    /\ BitAnd(TargetAcl.prompt, kSecKeychainPromptRequirePassphase)
         = kSecKeychainPromptRequirePassphase
    /\ TargetAcl.apps = <<>>

\* C4: after TrustedCallers is applied, for every prior ACL the authorized
\* applications are exactly the program's own identity (the invocation path, then
\* the real path when it differs): never empty, nothing carried over from the
\* prior list, and the prompt selector is cleared.
C4_TrustedCallersIsOwnIdentity ==
  Applied(TrustedCallers) =>
    /\ TargetAcl.apps = (IF last.self.exec = last.self.real
                         THEN <<last.self.exec>>
                         ELSE <<last.self.exec, last.self.real>>)
    /\ TargetAcl.apps # <<>>
    /\ \A i \in 1..Len(TargetAcl.apps) : TargetAcl.apps[i] \in {last.self.exec, last.self.real}
    /\ TargetAcl.prompt = 0

\* C4 witness: the policy replaced a prior list with another application in it and
\* prompt flags set, for a program run through a path that differs from its real path
C4_Witness ==
  /\ Applied(TrustedCallers) /\ last.op = "updateAccess" /\ last.found
  /\ last.prior.apps = <<PathOther, PathExec>>
  /\ last.prior.prompt = PromptExplicit + kSecKeychainPromptRequirePassphase
  /\ last.self.exec # last.self.real
  /\ TargetAcl.apps = <<PathExec, PathReal>>

----------------------------------------------------------------------------
(* SpecList: enumeration *)

\* an item tagged "envchain" that is not one of this system's entries: its
\* service does not start with the prefix
ForeignItems ==
  { Item(NsA, KeyH, Val1, ENVCHAIN_ITEM_DESCRIPTION, 0, <<PathOther>>),
    Item(<<97, 98>>, KeyH, Val1, ENVCHAIN_ITEM_DESCRIPTION, 0, <<PathOther>>) }

MaxForeign == 1
MaxItems == 3

ListStores ==
  { s \in UNION { [1..n -> ForeignItems] : n \in 0..MaxForeign } :
      \A i, j \in 1..Len(s) : i # j => s[i] # s[j] }

InitList ==
  /\ store \in ListStores
  /\ last = NoLast
  /\ proc = NoProc

ListSave ==
  /\ Len(store) < MaxItems
  /\ DoSave(Names, Keys, {Val1}, {Unspecified}, {SelfPlain}, {"none", "describe"})

ListDelete == DoDelete(Names, Keys, {"none"})

ListNamespaces == DoListNamespaces

ListKeys == DoListKeys(Names)

NextList == ListSave \/ ListDelete \/ ListNamespaces \/ ListKeys

SpecList == InitList /\ [][NextList]_vars

----------------------------------------------------------------------------
(* Claims about enumeration (SpecList) *)

HasMarker(svc) ==
  /\ Len(svc) >= Len(ENVCHAIN_SERVICE_PREFIX)
  /\ SubSeq(svc, 1, Len(ENVCHAIN_SERVICE_PREFIX)) = ENVCHAIN_SERVICE_PREFIX

\* the namespace a service identifier with the marker stands for
Decoded(svc) == SubSeq(svc, Len(ENVCHAIN_SERVICE_PREFIX) + 1, Len(svc))

Tagged(st) == { i \in 1..Len(st) : st[i].desc = ENVCHAIN_ITEM_DESCRIPTION }

\* the namespaces of this system's tagged entries
TaggedNamespaces(st) == { Decoded(st[i].svc) : i \in { j \in Tagged(st) : HasMarker(st[j].svc) } }

\* lexicographic order on strings, by the first position where they differ
LexLess(a, b) ==
  \E i \in 1..(Len(b)) :
    /\ \A j \in 1..(i - 1) : j <= Len(a) /\ a[j] = b[j]
    /\ (i > Len(a) \/ a[i] < b[i])

\* listNamespaces ran to its end and read every matched item
Listed == Completed("listNamespaces") /\ ~last.ub

\* C5: listNamespaces skips every tagged item whose service identifier lacks the
\* marker: each name handed to the callback is the namespace of a tagged entry
\* that carries the marker.
C5_ForeignEntriesSkipped ==
  Listed => \A k \in 1..Len(last.out) : last.out[k] \in TaggedNamespaces(store)

\* C6: for any stored entries, in any backend order, listNamespaces hands each
\* distinct namespace to the callback exactly once, in strictly ascending order.
C6_NamespacesOnceAscending ==
  Completed("listNamespaces") =>
    /\ \A k \in 1..(Len(last.out) - 1) : LexLess(last.out[k], last.out[k + 1])
    /\ \A n \in TaggedNamespaces(store) :
         Cardinality({ k \in 1..Len(last.out) : last.out[k] = n }) = 1

\* every matched item was read: namespace a has two entries with an entry of b
\* between them in backend order, and the callback got a, then b
C6_Witness ==
  /\ Listed
  /\ Len(store) = 3
  /\ Tagged(store) = {1, 2, 3}
  /\ store[1].svc = ENVCHAIN_SERVICE_PREFIX \o NsB
  /\ store[2].svc = ENVCHAIN_SERVICE_PREFIX \o NsA
  /\ store[3].svc = ENVCHAIN_SERVICE_PREFIX \o NsB
  /\ last.out = <<NsA, NsB>>

----------------------------------------------------------------------------
(* The command line (envchain.c).  Arguments are C strings. *)

TokSet == <<45, 45, 115, 101, 116>>   \* "--set"
TokS == <<45, 115>>   \* "-s"
TokSetAccess == <<45, 45, 115, 101, 116, 45, 97, 99, 99, 101, 115, 115>>   \* "--set-access"
TokList == <<45, 45, 108, 105, 115, 116>>   \* "--list"
TokL == <<45, 108>>   \* "-l"
TokUnset == <<45, 45, 117, 110, 115, 101, 116>>   \* "--unset"
TokKeychain == <<45, 45, 107, 101, 121, 99, 104, 97, 105, 110>>   \* "--keychain"
TokKeychainFromEnv == TokKeychain \o <<45, 102, 114, 111, 109, 45, 101, 110, 118>>   \* "--keychain-from-env"
TokKeychainDir == TokKeychain \o <<45, 100, 105, 114>>   \* "--keychain-dir"
TokN == <<45, 110>>   \* "-n"
TokNoecho == <<45, 45, 110, 111, 101, 99, 104, 111>>   \* "--noecho"
TokP == <<45, 112>>   \* "-p"
TokRequirePassphrase ==
  <<45, 45, 114, 101, 113, 117, 105, 114, 101, 45, 112, 97, 115, 115, 112, 104, 114, 97, 115, 101>>
TokBigP == <<45, 80>>   \* "-P"
TokNoRequirePassphrase ==
  <<45, 45, 110, 111, 45, 114, 101, 113, 117, 105, 114, 101, 45, 112, 97, 115, 115, 112, 104,
    114, 97, 115, 101>>
TokV == <<45, 118>>   \* "-v"
TokShowValue == <<45, 45, 115, 104, 111, 119, 45, 118, 97, 108, 117, 101>>   \* "--show-value"
TokX == <<45, 120>>   \* "-x", an option nothing knows
TokAB == <<97, 44, 98>>   \* "a,b"
TokPath == <<47, 107>>   \* "/k"
TokDir == <<47, 100>>   \* "/d"
TokSh == <<115, 104>>   \* "sh"

\* a null pointer where a C string is expected (no C string holds a NUL)
NULL == <<0>>

\* argv[0][0] == '-'
StartsWithDash(tok) == tok # <<>> /\ Head(tok) = 45

\* strchr(tok, ',') != NULL
HasComma(tok) == \E i \in 1..Len(tok) : tok[i] = 44

\* the first argument at or after position i that does not start with '-' (0: none)
RECURSIVE SkipDashed(_, _)
SkipDashed(args, i) ==
  IF i > Len(args) THEN 0
  ELSE IF StartsWithDash(args[i]) THEN SkipDashed(args, i + 1)
  ELSE i

\* the first argument at or after position i that is not a show-value flag (0: none)
RECURSIVE SkipShowValue(_, _)
SkipShowValue(args, i) ==
  IF i > Len(args) THEN 0
  ELSE IF args[i] \in {TokShowValue, TokV} THEN SkipShowValue(args, i + 1)
  ELSE i

\* an inference that takes the token after the command, whatever it is
TokenAfterCommand(args) ==
  IF Len(args) < 2 \/ args[2] = <<>> THEN NULL ELSE args[2]

\* envchain_namespace_from_argv: args[1] is the command (argv[0] of the code)
envchain_namespace_from_argv(args) ==
  IF Len(args) < 1 THEN NULL
  ELSE
    LET cmd == args[1]
        i == IF cmd \in {TokSet, TokS, TokSetAccess} THEN SkipDashed(args, 2)
             ELSE IF cmd = TokUnset THEN (IF 1 < Len(args) THEN 2 ELSE 0)
             ELSE IF cmd \in {TokList, TokL} THEN SkipShowValue(args, 2)
             ELSE IF ~StartsWithDash(cmd) /\ ~HasComma(cmd) THEN 1
             ELSE 0
    IN  IF i = 0 \/ args[i] = <<>> THEN NULL ELSE args[i]

\* the option loop of main: keychain_target, keychain_dir, use_keychain_from_env,
\* and what is left of argv; missing: an option's argument is not there (rc = 2)
RECURSIVE MainOptions(_, _, _, _)
MainOptions(args, target, dir, from_env) ==
  IF args # <<>> /\ Head(args) = TokKeychain
  THEN IF Len(args) < 2
       THEN [missing |-> TRUE, args |-> <<>>, target |-> target, dir |-> dir,
             from_env |-> from_env]
       ELSE MainOptions(Tail(Tail(args)), args[2], dir, from_env)
  ELSE IF args # <<>> /\ Head(args) = TokKeychainFromEnv
  THEN MainOptions(Tail(args), target, dir, TRUE)
  ELSE IF args # <<>> /\ Head(args) = TokKeychainDir
  THEN IF Len(args) < 2
       THEN [missing |-> TRUE, args |-> <<>>, target |-> target, dir |-> dir,
             from_env |-> from_env]
       ELSE MainOptions(Tail(Tail(args)), target, args[2], from_env)
  ELSE [missing |-> FALSE, args |-> args, target |-> target, dir |-> dir,
        from_env |-> from_env]

\* the option loop of envchain_set (with_noecho) and of envchain_set_access
RECURSIVE CommandOptions(_, _, _, _)
CommandOptions(args, with_noecho, noecho, require_passphrase) ==
  IF 2 < Len(args) /\ StartsWithDash(args[1])
  THEN IF with_noecho /\ args[1] \in {TokN, TokNoecho}
       THEN CommandOptions(Tail(args), with_noecho, 1, require_passphrase)
       ELSE IF args[1] \in {TokP, TokRequirePassphrase}
       THEN CommandOptions(Tail(args), with_noecho, noecho, 1)
       ELSE IF args[1] \in {TokBigP, TokNoRequirePassphrase}
       THEN CommandOptions(Tail(args), with_noecho, noecho, 0)
       ELSE [unknown |-> TRUE, args |-> args, noecho |-> noecho,
             require_passphrase |-> require_passphrase]
  ELSE [unknown |-> FALSE, args |-> args, noecho |-> noecho,
        require_passphrase |-> require_passphrase]

\* the option loop of envchain_list: target (NULL: none), show_value, and whether
\* a second target made it print the help
RECURSIVE ListOptions(_, _, _)
ListOptions(args, target, show_value) ==
  IF args = <<>> THEN [help |-> FALSE, target |-> target, show_value |-> show_value]
  ELSE IF Head(args) \in {TokShowValue, TokV} THEN ListOptions(Tail(args), target, 1)
  ELSE IF target # NULL THEN [help |-> TRUE, target |-> target, show_value |-> show_value]
  ELSE ListOptions(Tail(args), Head(args), show_value)

\* strsep(&names, ","): the pieces between the commas, empty ones included
RECURSIVE SplitFrom(_, _, _)
SplitFrom(tok, i, piece) ==
  IF i > Len(tok) THEN <<piece>>
  ELSE IF tok[i] = 44 THEN <<piece>> \o SplitFrom(tok, i + 1, <<>>)
  ELSE SplitFrom(tok, i + 1, Append(piece, tok[i]))

strsep(tok) == SplitFrom(tok, 1, <<>>)

----------------------------------------------------------------------------
(* The process of one invocation *)

\* envchain_abort_with_help: the help text, exit(2)
envchain_abort_with_help(p) ==
  [p EXCEPT !.pc = "done", !.help = TRUE, !.code = 2, !.how = "exit"]

\* exit(code) from inside a backend-facing operation
ProcessExit(p, code) == [p EXCEPT !.pc = "done", !.code = code, !.how = "exit"]

\* a command function returned rc to main: goto cleanup
GotoCleanup(p, rc) == [p EXCEPT !.pc = "cleanup", !.rc = rc]

\* envchain_build_namespace_keychain_path: DIR/NS.keychain-db if access() finds it
envchain_build_namespace_keychain_path(dir, ns, exists) ==
  IF exists
  THEN dir \o <<47>> \o ns \o <<46, 107, 101, 121, 99, 104, 97, 105, 110, 45, 100, 98>>
  ELSE NULL

\* the start of a key loop: the namespace and the keys it will go through
EnterLoop(p, pc, cmd, args, noecho, rp) ==
  [p EXCEPT !.pc = pc, !.cmd = cmd, !.name = args[1], !.keys = Tail(args),
            !.total = Len(args) - 1, !.noecho = noecho, !.rp = rp]

\* main after its option loop: the dispatch, and each command up to its key loop
Dispatch(p, args) ==
  IF args = <<>> THEN envchain_abort_with_help(p)
  ELSE IF args[1] \in {TokSet, TokS}
  THEN LET c == CommandOptions(Tail(args), TRUE, 0, Unspecified)
       IN  IF c.unknown THEN GotoCleanup([p EXCEPT !.cmd = "set"], 1)
           ELSE IF Len(c.args) < 2 THEN envchain_abort_with_help([p EXCEPT !.cmd = "set"])
           ELSE EnterLoop(p, "set", "set", c.args, c.noecho, c.require_passphrase)
  ELSE IF args[1] \in {TokList, TokL}
  THEN [p EXCEPT !.pc = "list", !.cmd = "list", !.keys = Tail(args)]
  ELSE IF args[1] = TokUnset
  THEN IF Len(Tail(args)) < 2 THEN envchain_abort_with_help([p EXCEPT !.cmd = "unset"])
       ELSE EnterLoop(p, "unset", "unset", Tail(args), 0, Unspecified)
  ELSE IF args[1] = TokSetAccess
  THEN LET c == CommandOptions(Tail(args), FALSE, 0, Unspecified)
       IN  IF c.unknown THEN GotoCleanup([p EXCEPT !.cmd = "set_access"], 1)
           ELSE IF Len(c.args) < 2
                THEN envchain_abort_with_help([p EXCEPT !.cmd = "set_access"])
           ELSE IF c.require_passphrase < 0
                THEN GotoCleanup([p EXCEPT !.cmd = "set_access"], 2)
           ELSE EnterLoop(p, "set_access", "set_access", c.args, 0, c.require_passphrase)
  ELSE IF StartsWithDash(args[1]) THEN GotoCleanup([p EXCEPT !.cmd = "unknown"], 2)
  ELSE IF Len(args) < 2 THEN envchain_abort_with_help([p EXCEPT !.cmd = "exec"])
  ELSE [p EXCEPT !.pc = "exec", !.cmd = "exec", !.keys = strsep(args[1]),
                 !.total = Len(strsep(args[1]))]

\* main from its first line to the command's key loop.  env_keychain, env_dir: what
\* getenv returns; exists: whether access() finds the namespace's keychain file;
\* f = "open": SecKeychainOpen fails
main(p, env_keychain, env_dir, exists, f) ==
  LET o == MainOptions(p.argv, NULL, NULL, FALSE)
      target1 == IF o.target = NULL /\ o.from_env THEN env_keychain ELSE o.target
      dir == IF o.dir = NULL THEN env_dir ELSE o.dir
      ns == IF target1 = NULL /\ dir # NULL /\ dir # <<>>
            THEN envchain_namespace_from_argv(o.args)
            ELSE NULL
      path == IF ns # NULL THEN envchain_build_namespace_keychain_path(dir, ns, exists)
              ELSE NULL
      target == IF path # NULL THEN path ELSE target1
      opens == target # NULL /\ target # <<>>
      q == [p EXCEPT !.auto_namespace = ns,
                     !.auto_ns = IF ns # NULL THEN "held" ELSE "null",
                     !.auto_path = IF path # NULL THEN "held" ELSE "null"]
  IN  IF p.argv = <<>> THEN envchain_abort_with_help(p)
      ELSE IF o.missing THEN GotoCleanup(p, 2)
      ELSE IF opens /\ f = "open" THEN ProcessExit(q, 10)
      ELSE Dispatch([q EXCEPT !.keychain = IF opens THEN target ELSE NULL], o.args)

\* the values the prompt may return; NULL: nothing could be read
AskedValues == {NULL, Val2}

Entry(name, key) ==
  Item(envchain_generate_service_name(name), key, Val1, ENVCHAIN_ITEM_DESCRIPTION,
       0, <<PathExec>>)

MainStores == { <<>>, <<Entry(NsA, KeyP)>>, <<Entry(NsA, KeyH), Entry(NsA, KeyP)>> }

MaxKeys == 2

KeySeqs == UNION { [1..m -> Keys] : m \in 0..MaxKeys }

\* NAMESPACE KEY..., or nothing at all
Positionals == {<<>>} \cup { <<NsA>> \o ks : ks \in KeySeqs }

GlobalOptions == { <<>>, <<TokKeychain, TokPath>>, <<TokKeychain>>, <<TokKeychainDir, TokDir>>,
                   <<TokKeychainDir>>, <<TokKeychainFromEnv>> }

Commands ==
  { <<c>> \o fl \o pos :
      c \in {TokSet}, fl \in {<<>>, <<TokP>>, <<TokBigP>>, <<TokN>>, <<TokX>>},
      pos \in Positionals }
  \cup { <<TokSetAccess>> \o fl \o pos :
      fl \in {<<>>, <<TokP>>, <<TokBigP>>, <<TokX>>}, pos \in Positionals }
  \cup { <<TokUnset>> \o pos : pos \in Positionals }
  \cup { <<c>> \o rest :
      c \in {TokList, TokL},
      rest \in {<<>>, <<TokV>>, <<NsA>>, <<TokShowValue, NsA>>, <<NsA, NsB>>} }
  \cup { <<NsA>>, <<NsA, TokSh>>, <<TokAB, TokSh>>, <<TokS, NsA, KeyH>>, <<TokX>>, <<>> }

ArgvSet == { g \o c : g \in GlobalOptions, c \in Commands }

StartProc(argv) ==
  [pc |-> "start", argv |-> argv, cmd |-> "none", keys |-> <<>>, total |-> 0,
   done |-> 0, failed |-> 0, rc |-> 0, name |-> NULL, rp |-> Unspecified, noecho |-> 0,
   show_value |-> 0, keychain |-> NULL, released |-> 0, auto_namespace |-> NULL,
   auto_ns |-> "null", auto_path |-> "null", help |-> FALSE, code |-> 0, how |-> "running"]

InitMain ==
  /\ store \in MainStores
  /\ last = NoLast
  /\ proc \in { StartProc(argv) : argv \in ArgvSet }

\* after one key of a loop: on to the next, or back in main with the loop's result
AfterKey(p, failed, rc) ==
  LET q == [p EXCEPT !.keys = Tail(p.keys), !.done = p.done + 1,
                     !.failed = p.failed + (IF failed THEN 1 ELSE 0), !.rc = rc]
  IN  IF q.keys = <<>> THEN GotoCleanup(q, rc) ELSE q

MainStart ==
  /\ proc.pc = "start"
  /\ \E env_keychain \in {NULL, TokPath}, env_dir \in {NULL, TokDir}, exists \in BOOLEAN,
        f \in {"none", "open"} :
       proc' = main(proc, env_keychain, env_dir, exists, f)
  /\ UNCHANGED <<store, last>>

\* one turn of the loop of envchain_set: ask the value, save it
SetKey ==
  /\ proc.pc = "set"
  /\ \E value \in AskedValues, f \in SaveFailures :
       IF value = NULL
       THEN /\ proc' = GotoCleanup([proc EXCEPT !.done = proc.done + 1,
                                                !.failed = proc.failed + 1], 1)
            /\ UNCHANGED <<store, last>>
       ELSE LET r == envchain_save_value(store, proc.name, Head(proc.keys), value,
                                         proc.rp, SelfPlain, f)
            IN  /\ store' = r.store
                /\ last' = Last("save", proc.name, Head(proc.keys), value, proc.rp,
                                SelfPlain, r)
                /\ proc' = IF r.exited THEN ProcessExit(proc, r.code)
                           ELSE AfterKey(proc, FALSE, 0)

\* one turn of the loop of envchain_unset
UnsetKey ==
  /\ proc.pc = "unset"
  /\ \E f \in DeleteFailures :
       LET r == envchain_delete_value(store, proc.name, Head(proc.keys), f)
       IN  /\ store' = r.store
           /\ last' = Last("delete", proc.name, Head(proc.keys), <<>>, 0, NoSelf, r)
           /\ proc' = IF r.exited THEN ProcessExit(proc, r.code)
                      ELSE AfterKey(proc, FALSE, 0)

\* one turn of the loop of envchain_set_access
SetAccessKey ==
  /\ proc.pc = "set_access"
  /\ \E f \in AccessFailures :
       LET r == envchain_update_value_access(store, proc.name, Head(proc.keys),
                                             proc.rp, SelfPlain, f)
       IN  /\ store' = r.store
           /\ last' = Last("updateAccess", proc.name, Head(proc.keys), <<>>, proc.rp,
                           SelfPlain, r)
           /\ proc' = IF r.exited THEN ProcessExit(proc, r.code)
                      ELSE AfterKey(proc, FindRef(store, proc.name, Head(proc.keys)) = 0,
                                    IF r.rc # 0 THEN 1 ELSE proc.rc)

\* envchain_list: its options, then the keys of the target or the namespaces
List ==
  /\ proc.pc = "list"
  /\ LET o == ListOptions(proc.keys, NULL, 0)
         p == [proc EXCEPT !.name = o.target, !.show_value = o.show_value]
     IN  IF o.help \/ (o.target = NULL /\ o.show_value = 1)
         THEN /\ proc' = envchain_abort_with_help(p)
              /\ UNCHANGED <<store, last>>
         ELSE IF o.target # NULL
         THEN \E f \in QueryFailures :
                \E fail \in 0..Len(SecItemCopyMatching(
                                     store, FALSE, envchain_generate_service_name(o.target))) :
                  LET r == envchain_search_values(store, o.target, f, fail)
                  IN  /\ last' = Last("listKeys", o.target, <<>>, <<>>, 0, NoSelf, r)
                      /\ proc' = IF r.exited THEN ProcessExit(p, r.code)
                                 ELSE GotoCleanup(p, 0)
                      /\ UNCHANGED store
         ELSE \E f \in QueryFailures, junk \in JunkNames :
                \E fail \in 0..Len(SecItemCopyMatching(store, TRUE, ENVCHAIN_ITEM_DESCRIPTION)) :
                  LET r == envchain_search_namespaces(store, f, fail, junk)
                  IN  /\ last' = Last("listNamespaces", <<>>, <<>>, <<>>, 0, NoSelf, r)
                      /\ proc' = IF r.exited THEN ProcessExit(p, r.code)
                                 ELSE GotoCleanup(p, 0)
                      /\ UNCHANGED store

\* one turn of the strsep loop of envchain_exec: the namespace's values go to setenv
ExecNamespace ==
  /\ proc.pc = "exec" /\ proc.keys # <<>>
  /\ \E f \in QueryFailures :
       \E fail \in 0..Len(SecItemCopyMatching(
                            store, FALSE, envchain_generate_service_name(Head(proc.keys)))) :
         LET r == envchain_search_values(store, Head(proc.keys), f, fail)
         IN  /\ last' = Last("listKeys", Head(proc.keys), <<>>, <<>>, 0, NoSelf, r)
             /\ proc' = IF r.exited THEN ProcessExit(proc, r.code)
                        ELSE [proc EXCEPT !.keys = Tail(proc.keys), !.done = proc.done + 1,
                                          !.name = Head(proc.keys)]
             /\ UNCHANGED store

\* execvp: the command takes the process over, or envchain_exec returns 1
ExecRun ==
  /\ proc.pc = "exec" /\ proc.keys = <<>>
  /\ \E ok \in BOOLEAN :
       proc' = IF ok THEN [proc EXCEPT !.pc = "done", !.how = "exec"]
               ELSE GotoCleanup(proc, 1)
  /\ UNCHANGED <<store, last>>

\* cleanup: of main: the two buffers are freed, main returns rc
Cleanup ==
  /\ proc.pc = "cleanup"
  /\ proc' = [proc EXCEPT !.pc = "done", !.code = proc.rc, !.how = "return",
                          !.auto_path = IF proc.auto_path = "held" THEN "freed" ELSE @,
                          !.auto_ns = IF proc.auto_ns = "held" THEN "freed" ELSE @]
  /\ UNCHANGED <<store, last>>

NextMain ==
  MainStart \/ SetKey \/ UnsetKey \/ SetAccessKey \/ List \/ ExecNamespace \/ ExecRun
    \/ Cleanup

SpecMain == InitMain /\ [][NextMain]_vars

----------------------------------------------------------------------------
(* Claims about the commands (SpecMain) *)

\* the process ended by main returning (not by exit(), not by execvp)
Returned == proc.pc = "done" /\ proc.how = "return"

\* C7: listing the keys of a namespace without the show-value flag fetches no
\* entry's secret payload from the backend.
C7_ListKeysFetchesNoPayload ==
  (proc.cmd = "list" /\ Returned /\ last.op = "listKeys" /\ proc.show_value = 0)
    => last.fetched = 0

\* C8: updateAccess on a pair without entry returns non-zero and leaves the
\* keychain as it was; a set-access batch still goes through all its keys and its
\* result is non-zero when one of them was missing.
C8_MissingPairState ==
  /\ (Completed("updateAccess") /\ ~last.found) => last.rc # 0
  /\ (proc.cmd = "set_access" /\ proc.total > 0 /\ Returned) =>
       /\ proc.done = proc.total
       /\ proc.failed > 0 => proc.code # 0

C8_MissingPairStep ==
  (proc.pc = "set_access" /\ last'.op = "updateAccess" /\ ~last'.found) => store' = store

\* C8: a trust-policy update on a pair with no stored entry reports failure,
\* leaves the keychain as it was, and the batch goes on to the remaining keys.
C8_UpdateAccessOnMissingPair == []C8_MissingPairState /\ [][C8_MissingPairStep]_vars

\* C8 witness: a batch of two keys, the first without entry, the second updated after it
C8_Witness ==
  /\ proc.cmd = "set_access" /\ Returned
  /\ proc.total = 2 /\ proc.done = 2 /\ proc.failed = 1 /\ proc.code = 1
  /\ last.op = "updateAccess" /\ last.found /\ last.rc = 0
  /\ Len(store) = 1

\* C9: on every exit path the backend handle is released exactly once and the
\* auto-resolved path and auto-namespace buffers are freed before the process ends.
C9_ReleasedOnEveryExit ==
  (proc.pc = "done" /\ proc.how # "exec") =>
    /\ proc.keychain # NULL => proc.released = 1
    /\ proc.auto_ns # "held"
    /\ proc.auto_path # "held"

\* C10: in a multi-key set, unset or set-access, a key that fails without a fatal
\* error does not stop the remaining keys, and the result is non-zero when a key
\* failed: an invocation that returns to main went through all its keys.
C10_BatchContinuesPastFailures ==
  (proc.cmd \in {"set", "unset", "set_access"} /\ proc.total > 0 /\ Returned) =>
    /\ proc.done = proc.total
    /\ proc.failed > 0 => proc.code # 0

\* the command tokens main knows
KnownCommands == {TokSet, TokS, TokList, TokL, TokUnset, TokSetAccess}

\* the options of --set and of --set-access
SetOptions == {TokN, TokNoecho, TokP, TokRequirePassphrase, TokBigP, TokNoRequirePassphrase}
SetAccessOptions == {TokP, TokRequirePassphrase, TokBigP, TokNoRequirePassphrase}

\* the tokens of args at the positions from i on that do not start with '-'
Positional(args, i) == { j \in i..Len(args) : ~StartsWithDash(args[j]) }

\* an invocation with bad or missing arguments, told from the argument vector alone:
\* a --keychain or --keychain-dir without its argument, no command, a command token
\* nothing knows, an option set / set-access does not know, fewer than NAMESPACE KEY
\* (exec: NAMESPACE COMMAND), set-access without -p and without -P
UsageError(argv) ==
  LET o == MainOptions(argv, NULL, NULL, FALSE)
      a == o.args
  IN  \/ o.missing
      \/ ~o.missing /\ a = <<>>
      \/ a # <<>> /\ StartsWithDash(a[1]) /\ a[1] \notin KnownCommands
      \/ a # <<>> /\ a[1] \in {TokSet, TokS}
           /\ \/ \E j \in 2..Len(a) : StartsWithDash(a[j]) /\ a[j] \notin SetOptions
              \/ Cardinality(Positional(a, 2)) < 2
      \/ a # <<>> /\ a[1] = TokSetAccess
           /\ \/ \E j \in 2..Len(a) : StartsWithDash(a[j]) /\ a[j] \notin SetAccessOptions
              \/ Cardinality(Positional(a, 2)) < 2
              \/ ~\E j \in 2..Len(a) : a[j] \in SetAccessOptions
      \/ a # <<>> /\ a[1] = TokUnset /\ Len(a) < 3
      \/ a # <<>> /\ ~StartsWithDash(a[1]) /\ Len(a) < 2

\* the process was ended by a failing backend call
BackendExit == proc.pc = "done" /\ proc.how = "exit" /\ proc.code = 10

\* C11: an invocation with bad or missing arguments prints the full help text,
\* exits with status 2 and performs no store operation (runs in which opening the
\* keychain failed first are left aside).
C11_UsageErrorHelpAndExit2 ==
  (proc.pc = "done" /\ UsageError(proc.argv) /\ ~BackendExit) =>
    /\ proc.help
    /\ proc.code = 2
    /\ last.op = "none"

\* the items stored under the service of namespace name
ItemsOf(st, name) == { i \in 1..Len(st) : st[i].svc = envchain_generate_service_name(name) }

\* the last operation was a delete of an existing entry and the entry is still there:
\* its find or its delete call failed
DeleteFailed ==
  last.op = "delete" /\ last.found /\ Matching(store, last.name, last.key) # {}

\* the last operation was a listing of keys that handed over fewer entries than the
\* namespace holds: the query or the read of an item failed
ReadFailed ==
  last.op = "listKeys" /\ ItemsOf(store, last.name) # {}
    /\ Len(last.out) < Cardinality(ItemsOf(store, last.name))

\* C12: a failing backend call ends the process at once with exit status 10; no
\* later backend operation, callback or command step runs after it.
C12_BackendFailureExits10 ==
  (DeleteFailed \/ ReadFailed) => BackendExit /\ last.exited /\ last.code = 10

----------------------------------------------------------------------------
(* SpecInfer: envchain_namespace_from_argv applied to argument vectors *)

TokDb == <<100, 98>>   \* "db"
TokDbWeb == <<100, 98, 44, 119, 101, 98>>   \* "db,web"
TokHost == <<72, 79, 83, 84>>   \* "HOST"
TokBash == <<98, 97, 115, 104>>   \* "bash"

\* the longest argument vector, the command token included
MaxArgs == 4

\* what may stand in the command's place, and what may follow it
FirstTokens == {TokSet, TokS, TokSetAccess, TokUnset, TokList, TokL, TokX, TokDb, TokDbWeb, <<>>}
LaterTokens == {TokN, TokV, TokShowValue, TokDb, TokHost, TokBash, <<>>}

InferArgs ==
  {<<>>} \cup UNION { { <<c>> \o rest : c \in FirstTokens, rest \in [1..m -> LaterTokens] } :
                      m \in 0..(MaxArgs - 1) }

InitInfer ==
  /\ store = <<>>
  /\ last = NoLast
  /\ proc \in { [pc |-> "infer", argv |-> a, auto_namespace |-> NULL] : a \in InferArgs }

\* auto_namespace = envchain_namespace_from_argv(argc, argv)
InferNamespace ==
  /\ proc.pc = "infer"
  /\ proc' = [proc EXCEPT !.pc = "inferred",
                          !.auto_namespace = envchain_namespace_from_argv(proc.argv)]
  /\ UNCHANGED <<store, last>>

NextInfer == InferNamespace

SpecInfer == InitInfer /\ [][NextInfer]_vars

\* the first token after the command that Skip does not hold of (NULL: there is none)
FirstNot(args, Skip(_)) ==
  LET S == { j \in 2..Len(args) : ~Skip(args[j]) }
  IN  IF S = {} THEN NULL ELSE args[CHOOSE j \in S : \A k \in S : j <= k]

IsShowValue(tok) == tok \in {TokShowValue, TokV}

\* the token the inference selects (NULL: none)
SelectedToken(args) ==
  IF args = <<>> THEN NULL
  ELSE IF args[1] \in {TokSet, TokS, TokSetAccess} THEN FirstNot(args, StartsWithDash)
  ELSE IF args[1] = TokUnset THEN (IF Len(args) >= 2 THEN args[2] ELSE NULL)
  ELSE IF args[1] \in {TokList, TokL} THEN FirstNot(args, IsShowValue)
  ELSE IF StartsWithDash(args[1]) THEN NULL
  ELSE IF HasComma(args[1]) THEN NULL
  ELSE args[1]

InferredNamespace(args) == IF SelectedToken(args) = <<>> THEN NULL ELSE SelectedToken(args)

\* C13: namespace inference returns, for set / set-access, the first token after the
\* command that does not start with '-'; for unset, the token at index 1; for list,
\* the first token after the command that is not a show-value flag; for the exec
\* form, the first token if it holds no comma; for another flag-shaped command,
\* none; and none when the selected token is absent or empty.  (--set, -n, db, HOST)
\* and (--unset, db, HOST) and (db, bash) give db; (--list, -v) and ("db,web", bash)
\* give none.
C13_NamespaceInference ==
  proc.pc = "inferred" =>
    /\ proc.auto_namespace = InferredNamespace(proc.argv)
    /\ proc.argv = <<TokSet, TokN, TokDb, TokHost>> => proc.auto_namespace = TokDb
    /\ proc.argv = <<TokUnset, TokDb, TokHost>> => proc.auto_namespace = TokDb
    /\ proc.argv = <<TokList, TokV>> => proc.auto_namespace = NULL
    /\ proc.argv = <<TokDbWeb, TokBash>> => proc.auto_namespace = NULL
    /\ proc.argv = <<TokDb, TokBash>> => proc.auto_namespace = TokDb

\* C13 witness: the namespace of a set behind an option was inferred
C13_Witness ==
  /\ proc.pc = "inferred"
  /\ proc.argv = <<TokSet, TokN, TokDb, TokHost>>
  /\ proc.auto_namespace = TokDb

\* the keys stored under namespace name
KeysOf(st, name) == { st[i].acct : i \in ItemsOf(st, name) }

\* how many times the callback of the last listing was given key k
CallsFor(k) == Cardinality({ j \in 1..Len(last.out) : last.out[j].key = k })

\* C14: listKeys on a namespace without entries invokes the callback zero times and
\* returns non-zero (namespace not defined); on a namespace with entries it returns
\* zero and invokes the callback exactly once per distinct key stored under it, and
\* never for a key that is not stored under it.
C14_ListKeysOncePerKey ==
  Completed("listKeys") =>
    IF ItemsOf(store, last.name) = {}
    THEN last.rc # 0 /\ last.out = <<>>
    ELSE /\ last.rc = 0
         /\ \A k \in KeysOf(store, last.name) : CallsFor(k) = 1
         /\ \A j \in 1..Len(last.out) : last.out[j].key \in KeysOf(store, last.name)

\* C15: whenever namespace inference returned a namespace and the command went on
\* to read or write the store, the namespace the command operates on is the
\* inferred one (so the auto-selected keychain is the one of that namespace).
C15_InferredIsOperatedNamespace ==
  (proc.auto_namespace # NULL /\ last.op # "none") => last.name = proc.auto_namespace

====
